---- MODULE Spec2Model ----
(***************************************************************************)
(* Model of pybamm.expression_tree.operations.serialise.Serialise:        *)
(* save_model / load_model, the symbol and mesh encoders, the class       *)
(* resolver and the post-order reconstruction of expression trees.        *)
(*                                                                         *)
(* Representation.                                                         *)
(*  - A live object is a record [kind, type, id, attrs, ...]: `type` is   *)
(*    its class, written as the sequence of the dot-separated parts of    *)
(*    the class path (so str(type(x))[8:-2] and its split(".") are the    *)
(*    sequence itself); `id` is its address, id(x).                       *)
(*  - A JSON record is a function from key strings to values, as the      *)
(*    dict the encoder builds: "py/object", "py/id", the keys of          *)
(*    to_json(), "children", "expression", "sub_meshes", ...              *)
(*  - An exception is a record [exc, mentions].                           *)
(***************************************************************************)
EXTENDS Naturals, Sequences, FiniteSets, TLC

VARIABLES
    model,      \* the live model the caller holds
    mesh,       \* the mesh it was discretised over
    variables,  \* its discretised variables
    fs,         \* the files on disk: path -> parsed JSON document
    call,       \* the last call made, with its arguments
    raised,     \* the exception that call raised, or NoError
    returned,   \* the value that call returned, or None
    filename,   \* the file name it saves under, or None
    invoked,    \* the collaborators that call invoked
    printed,    \* what that call printed
    \* the calls in progress, step by step:
    input,      \* per decoder call: the method called and the record given
    nodes,      \* per decoder call: that record, as rewritten so far
    stack,      \* per decoder call: the activations, each with its loop index
    objs,       \* per decoder call: the object returned or exception raised
    rebuilds,   \* per decoder call: the positions given to _reconstruct_symbol
    assembled,  \* the document the save_model call in progress has built so far
    pending,    \* the steps that call has still to take
    sys_modules \* the modules the interpreter has loaded

\* the state of the calls in progress
traversal == <<input, nodes, stack, objs, rebuilds, assembled, pending, sys_modules>>

vars == <<model, mesh, variables, filename, fs, call, raised, returned, invoked, printed,
          traversal>>

\* Python's None
None == [kind |-> "None"]

(***************************************************************************)
(* Bounds of the checked instances.                                        *)
(***************************************************************************)
MaxDepth == 1
MaxEvents == 2

(***************************************************************************)
(* Classes.                                                                *)
(***************************************************************************)
ScalarT == <<"pybamm", "expression_tree", "scalar", "Scalar">>
StateVectorT == <<"pybamm", "expression_tree", "state_vector", "StateVector">>
AdditionT == <<"pybamm", "expression_tree", "binary_operators", "Addition">>
SubtractionT == <<"pybamm", "expression_tree", "binary_operators", "Subtraction">>
ExplicitTimeIntegralT ==
    <<"pybamm", "expression_tree", "unary_operators", "ExplicitTimeIntegral">>
EventT == <<"pybamm", "models", "event", "Event">>
MeshT == <<"pybamm", "meshes", "meshes", "Mesh">>
SubMeshT == <<"pybamm", "meshes", "one_dimensional_submeshes", "Uniform1DSubMesh">>
SPMT == <<"pybamm", "models", "full_battery_models", "lithium_ion", "spm", "SPM">>
DFNT == <<"pybamm", "models", "full_battery_models", "lithium_ion", "dfn", "DFN">>
\* a model class written in the user's script: its module is not importable
\* from the loading process
UserModelT == <<"my_script", "MyModel">>

SymbolClasses == {ScalarT, StateVectorT, AdditionT, SubtractionT, ExplicitTimeIntegralT}
ModelClasses == {SPMT, DFNT}
\* every class the loading process can import
ImportableClasses == SymbolClasses \cup {EventT, MeshT, SubMeshT} \cup ModelClasses

\* parts[:-1] and parts[-1]
ModulePath(parts) == SubSeq(parts, 1, Len(parts) - 1)
ClassName(parts) == parts[Len(parts)]
ImportableModules == {ModulePath(c) : c \in ImportableClasses}

(***************************************************************************)
(* Small helpers on sequences and dicts.                                   *)
(***************************************************************************)
\* dict.update: the entries of e win
DictUpdate(d, e) == e @@ d
\* d[k] = v
DictSet(d, k, v) == (k :> v) @@ d
\* del d[k]
DictDel(d, k) == [x \in DOMAIN d \ {k} |-> d[x]]

(***************************************************************************)
(* Live expression trees.                                                  *)
(***************************************************************************)
Scalar(v) ==
    [kind |-> "Symbol", type |-> ScalarT, id |-> <<>>,
     attrs |-> [name |-> "scalar", value |-> v], children |-> <<>>]
StateVector(i) ==
    [kind |-> "Symbol", type |-> StateVectorT, id |-> <<>>,
     attrs |-> [name |-> "y", y_slice |-> i], children |-> <<>>]
Addition(l, r) ==
    [kind |-> "Symbol", type |-> AdditionT, id |-> <<>>,
     attrs |-> [name |-> "+"], children |-> <<l, r>>]
Subtraction(l, r) ==
    [kind |-> "Symbol", type |-> SubtractionT, id |-> <<>>,
     attrs |-> [name |-> "-"], children |-> <<l, r>>]
ExplicitTimeIntegral(c, ic) ==
    [kind |-> "Symbol", type |-> ExplicitTimeIntegralT, id |-> <<>>,
     attrs |-> [name |-> "explicit time integral"], children |-> <<c>>,
     initial_condition |-> ic]
Event(name, expr, etype) ==
    [kind |-> "Event", type |-> EventT, id |-> <<>>,
     attrs |-> [name |-> name, event_type |-> etype], expression |-> expr]

\* hasattr(node, "initial_condition")
HasInitialCondition(node) == "initial_condition" \in DOMAIN node

\* The object graph with every object at an address of its own: the root at
\* a, child i at a \o <<i>>, the auxiliary tree at a \o <<0>>.
RECURSIVE Place(_, _)
Place(node, a) ==
    LET base == [node EXCEPT !.id = a]
    IN  IF node.kind = "Event"
        THEN [base EXCEPT !.expression = Place(node.expression, Append(a, 1))]
        ELSE LET kids == [base EXCEPT !.children =
                            [i \in 1..Len(node.children) |->
                                Place(node.children[i], Append(a, i))]]
             IN  IF HasInitialCondition(node)
                 THEN [kids EXCEPT !.initial_condition =
                          Place(node.initial_condition, Append(a, 0))]
                 ELSE kids

Leaves == {Scalar(1), StateVector(0)}

\* expression trees of depth at most d: a binary operator has a leaf on one
\* side at least
RECURSIVE TreesUpTo(_)
TreesUpTo(d) ==
    IF d = 0 THEN Leaves
    ELSE LET sub == TreesUpTo(d - 1)
         IN  Leaves
             \cup {Subtraction(l, r) : l \in sub, r \in Leaves}
             \cup {Subtraction(l, r) : l \in Leaves, r \in sub}
             \cup {Addition(l, l) : l \in Leaves}
             \cup {ExplicitTimeIntegral(c, Scalar(0)) : c \in sub}

Trees == TreesUpTo(MaxDepth)

(***************************************************************************)
(* Exceptions.  `mentions` is what the message of the exception names.     *)
(***************************************************************************)
Exception(exc, mentions) == [exc |-> exc, mentions |-> mentions]
NoError == [exc |-> "none", mentions |-> <<>>]
\* x is a dict, a record or a live object
IsError(x) == "exc" \in DOMAIN x

\* the first exception raised while the elements of a sequence are
\* processed from left to right
FirstError(s) ==
    LET bad == {i \in 1..Len(s) : IsError(s[i])}
    IN  s[CHOOSE i \in bad : \A j \in bad : i <= j]
AnyError(s) == \E i \in 1..Len(s) : IsError(s[i])

(***************************************************************************)
(* Node Snapshot Protocol of the node classes (to_json / _from_json).      *)
(***************************************************************************)
\* to_json(): the object's own attributes, without children
ToJson(node) == node.attrs

StructuralKeys ==
    {"py/object", "py/id", "children", "initial_condition", "expression", "sub_meshes"}

(***************************************************************************)
(* _SymbolEncoder.default                                                  *)
(***************************************************************************)
TypeTag(node) == node.type

\* mutant: the own attributes of the node are left out of its record
SymbolRecordWithoutAttributes(node, node_dict, kids, ic) ==
    IF AnyError(kids) THEN FirstError(kids)
    ELSE IF IsError(ic) THEN ic
    ELSE IF HasInitialCondition(node)
    THEN DictSet(DictSet(node_dict, "children", kids), "initial_condition", ic)
    ELSE DictSet(node_dict, "children", kids)

\* mutant: a child whose marker an earlier child carries is written as a
\* reference to it
SymbolRecordByReference(node, node_dict, kids, ic) ==
    IF AnyError(kids) THEN FirstError(kids)
    ELSE IF IsError(ic) THEN ic
    ELSE LET refs == [i \in 1..Len(kids) |->
                         IF \E j \in 1..(i - 1) : kids[j]["py/id"] = kids[i]["py/id"]
                         THEN ("py/ref" :> kids[i]["py/id"])
                         ELSE kids[i]]
             full == DictSet(DictUpdate(node_dict, ToJson(node)), "children", refs)
         IN  IF HasInitialCondition(node)
             THEN DictSet(full, "initial_condition", ic)
             ELSE full

\* the record of a Symbol once its children and its initial condition are
\* encoded; an exception of a nested call ends the call
SymbolRecord(node, node_dict, kids, ic) ==
    IF AnyError(kids) THEN FirstError(kids)
    ELSE IF IsError(ic) THEN ic
    ELSE IF HasInitialCondition(node)
    THEN DictSet(DictSet(DictUpdate(node_dict, ToJson(node)), "children", kids),
                 "initial_condition", ic)
    ELSE DictSet(DictUpdate(node_dict, ToJson(node)), "children", kids)
EventRecord(node, node_dict, expr) ==
    IF IsError(expr) THEN expr
    ELSE DictSet(DictUpdate(node_dict, ToJson(node)), "expression", expr)

\* mutant: the marker is taken from the class of the node
NodeDictOfClass(node) ==
    ("py/object" :> TypeTag(node)) @@ ("py/id" :> <<Len(TypeTag(node))>>)

NodeDict(node) == ("py/object" :> TypeTag(node)) @@ ("py/id" :> node.id)

RECURSIVE SymbolEncoderDefault(_)
SymbolEncoderDefault(node) ==
    IF node.kind = "Symbol"
    THEN SymbolRecord(node, NodeDict(node),
                      [i \in 1..Len(node.children) |->
                          SymbolEncoderDefault(node.children[i])],
                      IF HasInitialCondition(node)
                      THEN SymbolEncoderDefault(node.initial_condition)
                      ELSE None)
    ELSE IF node.kind = "Event"
    THEN EventRecord(node, NodeDict(node), SymbolEncoderDefault(node.expression))
    \* json.JSONEncoder.default raises for any other object
    ELSE Exception("TypeError", TypeTag(node))

(***************************************************************************)
(* Meshes and _MeshEncoder.default                                         *)
(***************************************************************************)
\* A domain name is the sequence of the pieces of text it is made of; the
\* pieces are chosen so that "ghost cell" occurs in a name only as a piece.
GhostCell == "ghost cell"
\* "ghost cell" in name
ContainsGhostCell(name) == \E i \in 1..Len(name) : name[i] = GhostCell

\* the place of x in the sequence s
Ordinal(x, s) == CHOOSE i \in 1..Len(s) : s[i] = x

Negative == <<"negative electrode">>
Separator == <<"separator">>
NegativeGhost == <<"negative electrode", "_left ", GhostCell>>
\* the mesh keys: tuples of domain names
MeshKeySeq == <<<<Negative>>, <<Separator>>, <<NegativeGhost>>, <<Negative, Separator>>>>

SubMesh(key) ==
    [kind |-> "SubMesh", type |-> SubMeshT, id |-> <<7, Ordinal(key, MeshKeySeq)>>,
     attrs |-> [edges |-> <<0, 1>>, coord_sys |-> "cartesian"]]
\* a mesh over a set of keys (tuples of domain names)
Mesh(keys) ==
    [kind |-> "Mesh", type |-> MeshT, id |-> <<7>>,
     attrs |-> [submesh_pts |-> "pts"],
     items |-> [k \in keys |-> SubMesh(k)]]

\* mutant: ghost cells are not left out
PersistedWithGhostCells(k) == Len(k) = 1

\* len(k) == 1 and "ghost cell" not in k[0]
Persisted(k) == Len(k) = 1 /\ ~ContainsGhostCell(k[1])

RECURSIVE MeshEncoderDefault(_)
MeshEncoderDefault(node) ==
    LET node_dict == NodeDict(node)
    IN  IF node.kind = "Mesh"
        THEN LET kept == {k \in DOMAIN node.items : Persisted(k)}
                 sub_meshes == [n \in {k[1] : k \in kept} |->
                                   MeshEncoderDefault(node.items[<<n>>])]
             IN  DictSet(DictUpdate(node_dict, ToJson(node)), "sub_meshes", sub_meshes)
        ELSE IF node.kind = "SubMesh"
        THEN DictUpdate(node_dict, ToJson(node))
        ELSE Exception("TypeError", TypeTag(node))

(***************************************************************************)
(* Live models, events, meshes and variables the program is given.         *)
(***************************************************************************)
NdArray(items) == [ndarray |-> items]
\* ndarray.tolist() and np.array(list)
ToList(array) == array.ndarray
NpArray(list) == [ndarray |-> list]

Event1 == Event("Minimum voltage", Subtraction(StateVector(0), Scalar(1)), "TERMINATION")
Event2 == Event("Maximum voltage", Subtraction(Scalar(1), StateVector(0)), "INTERPOLANT")
Events == {Event1, Event2}
EventSeqs == UNION {[1..n -> Events] : n \in 0..MaxEvents}

PlaceEvents(es) == [i \in 1..Len(es) |-> Place(es[i], <<6, i>>)]

Model(cls, discretised, rhs, es) ==
    [kind |-> "Model", type |-> cls, id |-> <<0>>,
     is_discretised |-> discretised,
     name |-> "SPM",
     options |-> [thermal |-> "isothermal"],
     bounds |-> <<NdArray(<<0, 0>>), NdArray(<<1, 1>>)>>,
     concatenated_rhs |-> Place(rhs, <<1>>),
     concatenated_algebraic |-> Place(Addition(StateVector(0), StateVector(0)), <<2>>),
     concatenated_initial_conditions |-> Place(Scalar(2), <<3>>),
     events |-> PlaceEvents(es),
     mass_matrix |-> Place(Scalar(3), <<4>>),
     mass_matrix_inv |-> Place(Subtraction(Scalar(4), Scalar(3)), <<5>>),
     geometry |-> [domain |-> "negative electrode"]]

\* a model in which one node instance is both operands of the right-hand
\* side: the two positions hold the object at the address of the first
SharedOperand == Place(Addition(StateVector(0), Scalar(1)), <<1, 1>>)
SharingModel ==
    [Model(SPMT, TRUE, StateVector(0), <<Event1>>) EXCEPT
        !.concatenated_rhs =
            [Place(Subtraction(StateVector(0), StateVector(0)), <<1>>) EXCEPT
                !.children = <<SharedOperand, SharedOperand>>]]

\* an object that is no Symbol and no Event
Float == [kind |-> "float", type |-> <<"builtins", "float">>, id |-> <<9>>]

MeshKeys == {MeshKeySeq[i] : i \in 1..Len(MeshKeySeq)}
Meshes == {Mesh(keys) : keys \in SUBSET MeshKeys}

VariableNames == <<"Voltage", "Throughput">>
FuzzyDict(items) == [kind |-> "FuzzyDict", items |-> items]
NoVariables == FuzzyDict(<<>>)
OneVariable == FuzzyDict("Voltage" :> Place(Subtraction(StateVector(0), Scalar(1)), <<8, 1>>))
\* a mapping with a value that is no Symbol
FloatVariables ==
    FuzzyDict(("Voltage" :> Place(Subtraction(StateVector(0), Scalar(1)), <<8, 1>>))
              @@ ("Throughput" :> Float))
TwoVariables ==
    FuzzyDict(("Voltage" :> Place(Subtraction(StateVector(0), Scalar(1)), <<8, 1>>))
              @@ ("Throughput" :>
                    Place(ExplicitTimeIntegral(StateVector(0), Scalar(0)), <<8, 2>>)))

\* The inputs the caller holds: every axis is varied over its whole bounded
\* set while the others are held at one value.
Str(s) == [kind |-> "str", str |-> s]
Filenames == {"out"}
FilenameArgs == {None} \cup {Str(f) : f \in Filenames}

World(m, ms, vs, f) == [model |-> m, mesh |-> ms, variables |-> vs, filename |-> f]
TreeWorlds ==
    {World(Model(SPMT, TRUE, t, <<Event1, Event2>>), None, None, Str("out")) :
        t \in Trees}
EventWorlds ==
    {World(Model(SPMT, TRUE, StateVector(0), es), None, None, Str("out")) :
        es \in EventSeqs}
ClassWorlds ==
    {World(Model(c, d, Subtraction(StateVector(0), Scalar(1)), <<Event1>>),
           None, None, f) :
        c \in {SPMT, UserModelT}, d \in BOOLEAN, f \in FilenameArgs}
MeshWorlds ==
    {World(Model(SPMT, TRUE, StateVector(0), <<>>), ms, None, Str("out")) :
        ms \in Meshes}
VariableWorlds ==
    {World(Model(SPMT, TRUE, StateVector(0), <<>>),
           Mesh({<<Negative>>, <<NegativeGhost>>}), vs, Str("out")) :
        vs \in {NoVariables, OneVariable, TwoVariables, FloatVariables}}
SharingWorlds == {World(SharingModel, None, None, Str("out"))}
Worlds ==
    TreeWorlds \cup EventWorlds \cup ClassWorlds \cup MeshWorlds \cup VariableWorlds
    \cup SharingWorlds

(***************************************************************************)
(* save_model                                                              *)
(***************************************************************************)
\* bool(x) of an optional mapping: None and the empty mapping are false
Truthy(x) == x # None /\ DOMAIN x.items # {}

Clock == {"2023_01_01-AM00_00_00"}

\* the file save_model writes
OutputPath(m, fname, now) ==
    IF fname = None THEN m.name \o "_" \o now \o ".json"
    ELSE fname.str \o ".json"

\* the encoder calls of the model_json literal, in the order of evaluation
RequiredFields ==
    <<"concatenated_rhs", "concatenated_algebraic",
      "concatenated_initial_conditions", "mass_matrix", "mass_matrix_inv">>

\* mutant: one event only is encoded
EncodeEventsFirstOnly(events) ==
    IF events = <<>> THEN <<>> ELSE <<SymbolEncoderDefault(events[1])>>

\* [self._SymbolEncoder().default(event) for event in model.events]
EncodeEvents(events) == [i \in 1..Len(events) |-> SymbolEncoderDefault(events[i])]

\* mutant: the geometry is written with the mesh
SnapshotOfGeometryWithMesh(m, meshArg, varArg) ==
    LET events == EncodeEvents(m.events)
        model_json ==
            ("py/object" :> TypeTag(m))
            @@ ("py/id" :> m.id)
            @@ ("name" :> m.name)
            @@ ("options" :> m.options)
            @@ ("bounds" :> [i \in 1..Len(m.bounds) |-> ToList(m.bounds[i])])
            @@ ("concatenated_rhs" :> SymbolEncoderDefault(m.concatenated_rhs))
            @@ ("concatenated_algebraic" :>
                    SymbolEncoderDefault(m.concatenated_algebraic))
            @@ ("concatenated_initial_conditions" :>
                    SymbolEncoderDefault(m.concatenated_initial_conditions))
            @@ ("events" :> events)
            @@ ("mass_matrix" :> SymbolEncoderDefault(m.mass_matrix))
            @@ ("mass_matrix_inv" :> SymbolEncoderDefault(m.mass_matrix_inv))
        withMesh ==
            IF Truthy(meshArg)
            THEN DictSet(DictSet(model_json, "geometry", m.geometry), "mesh",
                         MeshEncoderDefault(meshArg))
            ELSE model_json
        withVariables ==
            IF Truthy(varArg)
            THEN DictSet(withMesh, "variables",
                         [k \in DOMAIN varArg.items |->
                             SymbolEncoderDefault(varArg.items[k])])
            ELSE withMesh
    IN  withVariables

SnapshotOf(m, meshArg, varArg) ==
    LET events == EncodeEvents(m.events)
        model_json ==
            ("py/object" :> TypeTag(m))
            @@ ("py/id" :> m.id)
            @@ ("name" :> m.name)
            @@ ("options" :> m.options)
            @@ ("bounds" :> [i \in 1..Len(m.bounds) |-> ToList(m.bounds[i])])
            @@ ("concatenated_rhs" :> SymbolEncoderDefault(m.concatenated_rhs))
            @@ ("concatenated_algebraic" :>
                    SymbolEncoderDefault(m.concatenated_algebraic))
            @@ ("concatenated_initial_conditions" :>
                    SymbolEncoderDefault(m.concatenated_initial_conditions))
            @@ ("events" :> events)
            @@ ("mass_matrix" :> SymbolEncoderDefault(m.mass_matrix))
            @@ ("mass_matrix_inv" :> SymbolEncoderDefault(m.mass_matrix_inv))
        withMesh ==
            IF Truthy(meshArg)
            THEN DictSet(model_json, "mesh", MeshEncoderDefault(meshArg))
            ELSE model_json
        withVariables ==
            IF Truthy(varArg)
            THEN DictSet(DictSet(withMesh, "geometry", m.geometry), "variables",
                         [k \in DOMAIN varArg.items |->
                             SymbolEncoderDefault(varArg.items[k])])
            ELSE withMesh
    IN  withVariables

\* the number of top-level encoder calls save_model makes
EncoderCalls(m, meshArg, varArg) ==
    Len(RequiredFields) + Len(m.events)
    + (IF Truthy(meshArg) THEN 1 ELSE 0)
    + (IF Truthy(varArg) THEN Cardinality(DOMAIN varArg.items) ELSE 0)

\* mutant: the model is never checked
NotDiscretisedUnchecked(m) == FALSE

NotDiscretised(m) == m.is_discretised = FALSE

\* the records of a document save_model has built, in the order it builds them
EncodedParts(doc) ==
    <<doc["concatenated_rhs"], doc["concatenated_algebraic"],
      doc["concatenated_initial_conditions"]>>
    \o doc["events"]
    \o <<doc["mass_matrix"], doc["mass_matrix_inv"]>>
    \o (IF "mesh" \in DOMAIN doc THEN <<doc["mesh"]>> ELSE <<>>)
    \o (IF "variables" \in DOMAIN doc
        THEN SelectSeq([i \in 1..Len(VariableNames) |->
                           IF VariableNames[i] \in DOMAIN doc["variables"]
                           THEN doc["variables"][VariableNames[i]] ELSE None],
                       LAMBDA r : r # None)
        ELSE <<>>)

\* mutant: the file is opened before the document is built
BuildAndWriteOpenedFirst(model_json, path, ncalls) ==
    /\ invoked' = [encoders |-> ncalls, deserialise |-> None]
    /\ IF AnyError(EncodedParts(model_json))
       THEN /\ raised' = FirstError(EncodedParts(model_json))
            /\ fs' = DictSet(fs, path, <<>>)
       ELSE /\ raised' = NoError
            /\ fs' = DictSet(fs, path, model_json)

\* lines 116-147 on a discretised model: the document is built, then written
BuildAndWrite(model_json, path, ncalls) ==
    /\ invoked' = [encoders |-> ncalls, deserialise |-> None]
    /\ IF AnyError(EncodedParts(model_json))
       THEN /\ raised' = FirstError(EncodedParts(model_json))
            /\ fs' = fs
       ELSE /\ raised' = NoError
            /\ fs' = DictSet(fs, path, model_json)

SaveModel(meshArg, varArg, fname, now) ==
    /\ call' = [op |-> "save_model", mesh |-> meshArg, variables |-> varArg,
                filename |-> fname, battery_model |-> None]
    /\ IF NotDiscretised(model)
       THEN /\ raised' = Exception("NotImplementedError", <<>>)
            /\ invoked' = [encoders |-> 0, deserialise |-> None]
            /\ fs' = fs
       ELSE BuildAndWrite(SnapshotOf(model, meshArg, varArg),
                          OutputPath(model, fname, now),
                          EncoderCalls(model, meshArg, varArg))
    /\ returned' = None
    /\ printed' = <<>>
    /\ UNCHANGED <<model, mesh, variables, filename, traversal>>

(***************************************************************************)
(* _get_pybamm_class, _reconstruct_symbol                                  *)
(***************************************************************************)
\* importlib.import_module(".".join(parts[:-1])) succeeds
ImportSucceeds(parts) == ModulePath(parts) \in ImportableModules

\* mutant: the class is looked up by its name alone, whatever the module
GetPybammClassByName(snippet) ==
    LET parts == snippet["py/object"]
        named == {c \in ImportableClasses : ClassName(c) = ClassName(parts)}
    IN  IF named = {} THEN Exception("AttributeError", parts)
        ELSE [kind |-> "Shell", class |-> CHOOSE c \in named : TRUE]

\* the empty shell of the class, or the exception raised
GetPybammClass(snippet) ==
    LET parts == snippet["py/object"]
    IN  IF ~ImportSucceeds(parts)
        \* the import error was caught and printed: `module` is unbound
        THEN Exception("UnboundLocalError", <<"module">>)
        ELSE IF parts \notin ImportableClasses
        THEN Exception("AttributeError", parts)
        ELSE [kind |-> "Shell", class |-> parts]

\* the keys of a record that are the node's own attributes
OwnAttrs(dct) == [k \in DOMAIN dct \ StructuralKeys |-> dct[k]]

\* the field of a record the class needs to be rebuilt: the children of an
\* operator, the expression of an event, the sub-meshes of a mesh; "" for a
\* leaf
RequiredKey(cls) ==
    IF cls \in {AdditionT, SubtractionT, ExplicitTimeIntegralT} THEN "children"
    ELSE IF cls = EventT THEN "expression"
    ELSE IF cls = MeshT THEN "sub_meshes"
    ELSE ""

\* cls._from_json(dct): the live object of class cls built from the record,
\* whose children (expression, sub-meshes) the decoder has already rebuilt
FromJson(cls, dct, a) ==
    LET base == [type |-> cls, id |-> a, attrs |-> OwnAttrs(dct)]
    IN  IF RequiredKey(cls) # "" /\ RequiredKey(cls) \notin DOMAIN dct
        \* snippet["children"] of a record without the key
        THEN Exception("KeyError", <<RequiredKey(cls)>>)
        ELSE IF cls = EventT
        THEN base @@ [kind |-> "Event", expression |-> dct["expression"]]
        ELSE IF cls = MeshT
        THEN base @@ [kind |-> "Mesh",
                      items |-> [k \in {<<n>> : n \in DOMAIN dct["sub_meshes"]} |->
                                    dct["sub_meshes"][k[1]]]]
        ELSE IF cls = SubMeshT
        THEN base @@ [kind |-> "SubMesh"]
        ELSE IF "children" \notin DOMAIN dct
        THEN base @@ [kind |-> "Symbol", children |-> <<>>]
        ELSE IF "initial_condition" \in DOMAIN dct
        THEN base @@ [kind |-> "Symbol", children |-> dct["children"],
                      initial_condition |-> dct["initial_condition"]]
        ELSE base @@ [kind |-> "Symbol", children |-> dct["children"]]

\* mutant: when _from_json fails the empty shell is returned as it is
ReconstructSymbolUnpopulated(dct, a) ==
    LET symbol_class == GetPybammClass(dct)
    IN  IF IsError(symbol_class) THEN symbol_class
        ELSE IF IsError(FromJson(symbol_class.class, dct, a)) THEN symbol_class
        ELSE FromJson(symbol_class.class, dct, a)

\* a is the address of the object created
ReconstructSymbol(dct, a) ==
    LET symbol_class == GetPybammClass(dct)
    IN  IF IsError(symbol_class) THEN symbol_class
        ELSE FromJson(symbol_class.class, dct, a)

(***************************************************************************)
(* _reconstruct_epression_tree, _reconstruct_mesh                          *)
(***************************************************************************)
\* mutant: the rebuilt children are stored in the reverse order
RebuildChildrenReversed(node, kids, a) ==
    IF AnyError(kids) THEN FirstError(kids)
    ELSE ReconstructSymbol(
             DictSet(node, "children",
                     [i \in 1..Len(kids) |-> kids[Len(kids) + 1 - i]]), a)

\* the tail of _reconstruct_epression_tree once the nested records are
\* rebuilt: node["children"][i] = child_obj for every i (node["expression"]
\* = expression_obj), then obj = self._reconstruct_symbol(node); an
\* exception of a nested call ends the call
RebuildChildren(node, kids, a) ==
    IF AnyError(kids) THEN FirstError(kids)
    ELSE ReconstructSymbol(DictSet(node, "children", kids), a)
RebuildExpression(node, expression_obj, a) ==
    IF IsError(expression_obj) THEN expression_obj
    ELSE ReconstructSymbol(DictSet(node, "expression", expression_obj), a)

RECURSIVE ReconstructExpressionTree(_, _)
ReconstructExpressionTree(node, a) ==
    IF "children" \in DOMAIN node
    THEN RebuildChildren(node,
                         [i \in 1..Len(node["children"]) |->
                             ReconstructExpressionTree(node["children"][i], Append(a, i))],
                         a)
    ELSE IF "expression" \in DOMAIN node
    THEN RebuildExpression(node,
                           ReconstructExpressionTree(node["expression"], Append(a, 1)),
                           a)
    ELSE ReconstructSymbol(node, a)

\* the sub-meshes are rebuilt one by one, then the mesh
RebuildMesh(node, subs, a) ==
    IF \E k \in DOMAIN subs : IsError(subs[k])
    THEN subs[CHOOSE k \in DOMAIN subs : IsError(subs[k])]
    ELSE ReconstructSymbol(DictSet(node, "sub_meshes", subs), a)

ReconstructMesh(node, a) ==
    IF "sub_meshes" \in DOMAIN node
    THEN RebuildMesh(node,
                     [k \in DOMAIN node["sub_meshes"] |->
                         ReconstructSymbol(node["sub_meshes"][k],
                                           Append(a, Ordinal(<<k>>, MeshKeySeq)))],
                     a)
    ELSE ReconstructSymbol(node, a)

(***************************************************************************)
(* load_model                                                              *)
(***************************************************************************)
\* battery_model.deserialise(recon_model_dict) of the model classes
Deserialise(cls, recon_model_dict) ==
    [kind |-> "Model", type |-> cls, id |-> <<10>>, is_discretised |-> TRUE]
    @@ recon_model_dict

Class(cls) == [kind |-> "class", class |-> cls]

\* the reconstructed fields, in the order load_model rebuilds them
ReconEvents(model_data) ==
    [i \in 1..Len(model_data["events"]) |->
        ReconstructExpressionTree(model_data["events"][i], <<16, i>>)]
\* mutant: the mesh of the file is read whether the file has one or not
ReconMeshRequired(model_data) ==
    IF "mesh" \in DOMAIN model_data
    THEN ReconstructMesh(model_data["mesh"], <<17>>)
    ELSE Exception("KeyError", <<"mesh">>)

ReconMesh(model_data) ==
    IF "mesh" \in DOMAIN model_data
    THEN ReconstructMesh(model_data["mesh"], <<17>>)
    ELSE None
ReconVariables(model_data) ==
    IF "variables" \in DOMAIN model_data
    THEN FuzzyDict([k \in DOMAIN model_data["variables"] |->
                      ReconstructExpressionTree(model_data["variables"][k],
                                                <<18, Ordinal(k, VariableNames)>>)])
    ELSE None

ReconModelDict(model_data) ==
    [name |-> model_data["name"],
     options |-> model_data["options"],
     bounds |-> [i \in 1..Len(model_data["bounds"]) |-> NpArray(model_data["bounds"][i])],
     concatenated_rhs |->
         ReconstructExpressionTree(model_data["concatenated_rhs"], <<11>>),
     concatenated_algebraic |->
         ReconstructExpressionTree(model_data["concatenated_algebraic"], <<12>>),
     concatenated_initial_conditions |->
         ReconstructExpressionTree(model_data["concatenated_initial_conditions"], <<13>>),
     events |-> ReconEvents(model_data),
     mass_matrix |-> ReconstructExpressionTree(model_data["mass_matrix"], <<14>>),
     mass_matrix_inv |->
         ReconstructExpressionTree(model_data["mass_matrix_inv"], <<15>>),
     geometry |-> IF "geometry" \in DOMAIN model_data
                  THEN model_data["geometry"] ELSE None,
     mesh |-> ReconMesh(model_data),
     variables |-> ReconVariables(model_data)]

\* the exceptions the reconstruction of the fields raised, in the order of
\* the fields
ReconErrors(d) ==
    SelectSeq(<<d.concatenated_rhs, d.concatenated_algebraic,
                d.concatenated_initial_conditions>>
              \o d.events
              \o <<d.mass_matrix, d.mass_matrix_inv, d.mesh>>
              \o (IF d.variables = None THEN <<>>
                  ELSE IF \E k \in DOMAIN d.variables.items :
                              IsError(d.variables.items[k])
                  THEN <<d.variables.items[CHOOSE k \in DOMAIN d.variables.items :
                                              IsError(d.variables.items[k])]>>
                  ELSE <<>>),
              IsError)

Fail(e) == [raised |-> e, returned |-> None, deserialise |-> None]
Built(cls, recon_model_dict) ==
    [raised |-> NoError, returned |-> Deserialise(cls, recon_model_dict),
     deserialise |-> Class(cls)]

\* mutant: the type tag of the file is looked at before the target class
ChooseTargetTagFirst(model_data, battery_model, recon_model_dict, model_framework) ==
    IF "py/object" \in DOMAIN model_data
    THEN IF IsError(model_framework) THEN Fail(model_framework)
         ELSE Built(model_framework.class, recon_model_dict)
    ELSE IF battery_model # None THEN Built(battery_model.class, recon_model_dict)
    ELSE Fail(Exception("TypeError", <<>>))

\* mutant: without a target class and a type tag a default class is used
ChooseTargetDefault(model_data, battery_model, recon_model_dict, model_framework) ==
    IF battery_model # None THEN Built(battery_model.class, recon_model_dict)
    ELSE IF "py/object" \in DOMAIN model_data
    THEN IF IsError(model_framework) THEN Fail(model_framework)
         ELSE Built(model_framework.class, recon_model_dict)
    ELSE Built(SPMT, recon_model_dict)

\* lines 225-236: the model class is chosen and its deserialise is called
ChooseTarget(model_data, battery_model, recon_model_dict, model_framework) ==
    IF battery_model # None THEN Built(battery_model.class, recon_model_dict)
    ELSE IF "py/object" \in DOMAIN model_data
    THEN IF IsError(model_framework) THEN Fail(model_framework)
         ELSE Built(model_framework.class, recon_model_dict)
    ELSE Fail(Exception("TypeError", <<>>))

\* mutant: a field that could not be rebuilt is left as it is and the model
\* is built all the same
LoadOutcomeSkippingErrors(model_data, battery_model, recon_model_dict, errors) ==
    ChooseTarget(model_data, battery_model, recon_model_dict,
                 GetPybammClass(model_data))

\* the outcome of load_model on the document read from the file:
\* [raised, returned, deserialise]
LoadOutcome(model_data, battery_model, recon_model_dict, errors) ==
    IF errors # <<>> THEN Fail(errors[1])
    ELSE ChooseTarget(model_data, battery_model, recon_model_dict,
                      GetPybammClass(model_data))

Outcome(o) ==
    /\ raised' = o.raised
    /\ returned' = o.returned
    /\ invoked' = [encoders |-> 0, deserialise |-> o.deserialise]
    /\ printed' = IF o.raised.exc = "UnboundLocalError"
                  THEN <<"ModuleNotFoundError">> ELSE <<>>

Loaded(model_data, battery_model, recon_model_dict) ==
    Outcome(LoadOutcome(model_data, battery_model, recon_model_dict,
                        ReconErrors(recon_model_dict)))

LoadModel(path, battery_model) ==
    /\ call' = [op |-> "load_model", mesh |-> None, variables |-> None,
                filename |-> Str(path), battery_model |-> battery_model]
    /\ IF path \notin DOMAIN fs
       THEN Outcome(Fail(Exception("FileNotFoundError", <<path>>)))
       ELSE Loaded(fs[path], battery_model, ReconModelDict(fs[path]))
    /\ UNCHANGED <<model, mesh, variables, filename, fs, traversal>>

(***************************************************************************)
(* Edits of a saved file by another program: the model's type tag is       *)
(* removed, or the type tag of one record is changed to one that names no  *)
(* module, or no class of its module.                                      *)
(***************************************************************************)
BadTag(parts, how) ==
    IF how = "module" THEN <<"no_such_package">> \o parts
    ELSE ModulePath(parts) \o <<"NoSuchClass">>
BadTagKinds == {"module", "class"}

\* the records below a record, by the path that leads to them: i for child
\* i, 0 for the expression of an event
RECURSIVE NodePaths(_)
NodePaths(rec) ==
    {<<>>}
    \cup (IF "children" \in DOMAIN rec
          THEN UNION {{<<i>> \o p : p \in NodePaths(rec["children"][i])} :
                         i \in 1..Len(rec["children"])}
          ELSE {})
    \cup (IF "expression" \in DOMAIN rec
          THEN {<<0>> \o p : p \in NodePaths(rec["expression"])}
          ELSE {})

RECURSIVE Retag(_, _, _)
Retag(rec, path, how) ==
    IF path = <<>> THEN DictSet(rec, "py/object", BadTag(rec["py/object"], how))
    ELSE IF Head(path) = 0
    THEN DictSet(rec, "expression", Retag(rec["expression"], Tail(path), how))
    ELSE DictSet(rec, "children",
                 [rec["children"] EXCEPT ![Head(path)] = Retag(@, Tail(path), how)])

\* every type tag of the records of a tree names a class that exists
RECURSIVE KnownTags(_)
KnownTags(rec) ==
    /\ rec["py/object"] \in ImportableClasses
    /\ "children" \in DOMAIN rec =>
          \A i \in 1..Len(rec["children"]) : KnownTags(rec["children"][i])
    /\ "expression" \in DOMAIN rec => KnownTags(rec["expression"])
    /\ "sub_meshes" \in DOMAIN rec =>
          \A n \in DOMAIN rec["sub_meshes"] : KnownTags(rec["sub_meshes"][n])

\* the records load_model decodes, field by field
DecodedRecords(doc) ==
    {doc[f] : f \in {"concatenated_rhs", "concatenated_algebraic",
                     "concatenated_initial_conditions", "mass_matrix",
                     "mass_matrix_inv"}}
    \cup {doc["events"][i] : i \in 1..Len(doc["events"])}
    \cup (IF "mesh" \in DOMAIN doc THEN {doc["mesh"]} ELSE {})
    \cup (IF "variables" \in DOMAIN doc
          THEN {doc["variables"][k] : k \in DOMAIN doc["variables"]} ELSE {})

\* every record of a tree has the field its class needs
RECURSIVE Shaped(_)
Shaped(rec) ==
    /\ RequiredKey(rec["py/object"]) # "" => RequiredKey(rec["py/object"]) \in DOMAIN rec
    /\ "children" \in DOMAIN rec =>
          \A i \in 1..Len(rec["children"]) : Shaped(rec["children"][i])
    /\ "expression" \in DOMAIN rec => Shaped(rec["expression"])

\* the records of a document that lack the field their class needs
Malformed(doc) == {rec \in DecodedRecords(doc) : KnownTags(rec) /\ ~Shaped(rec)}

\* no record of the document has been changed yet: every record of it can be
\* rebuilt
Pristine(doc) == \A rec \in DecodedRecords(doc) : KnownTags(rec) /\ Shaped(rec)

Edited(path, doc) ==
    /\ fs' = DictSet(fs, path, doc)
    /\ call' = [op |-> "edit", mesh |-> None, variables |-> None,
                filename |-> Str(path), battery_model |-> None]
    /\ raised' = NoError
    /\ returned' = None
    /\ invoked' = [encoders |-> 0, deserialise |-> None]
    /\ printed' = <<>>
    /\ UNCHANGED <<model, mesh, variables, filename, traversal>>

DropModelTag(path) ==
    /\ "py/object" \in DOMAIN fs[path]
    /\ Edited(path, DictDel(fs[path], "py/object"))

RetagField(path, field, p, how) ==
    /\ Pristine(fs[path])
    /\ Edited(path, DictSet(fs[path], field, Retag(fs[path][field], p, how)))

RetagEvent(path, i, p, how) ==
    /\ Pristine(fs[path])
    /\ Edited(path, DictSet(fs[path], "events",
                            [fs[path]["events"] EXCEPT ![i] = Retag(@, p, how)]))

RetagMesh(path, how) ==
    /\ "mesh" \in DOMAIN fs[path]
    /\ Pristine(fs[path])
    /\ Edited(path, DictSet(fs[path], "mesh", Retag(fs[path]["mesh"], <<>>, how)))

RetagSubMesh(path, n, how) ==
    /\ Pristine(fs[path])
    /\ LET m == fs[path]["mesh"]
           subs == DictSet(m["sub_meshes"], n, Retag(m["sub_meshes"][n], <<>>, how))
       IN  Edited(path, DictSet(fs[path], "mesh", DictSet(m, "sub_meshes", subs)))

\* the record at a path loses the field its class needs
RECURSIVE Strip(_, _)
Strip(rec, path) ==
    IF path = <<>> THEN DictDel(rec, RequiredKey(rec["py/object"]))
    ELSE IF Head(path) = 0
    THEN DictSet(rec, "expression", Strip(rec["expression"], Tail(path)))
    ELSE DictSet(rec, "children",
                 [rec["children"] EXCEPT ![Head(path)] = Strip(@, Tail(path))])

\* the paths of the records of a tree that have such a field
CompositePaths(rec) ==
    {p \in NodePaths(rec) : Strip(rec, p) # rec}

StripField(path, field, p) ==
    /\ Pristine(fs[path])
    /\ Edited(path, DictSet(fs[path], field, Strip(fs[path][field], p)))

StripEvent(path, i, p) ==
    /\ Pristine(fs[path])
    /\ Edited(path, DictSet(fs[path], "events",
                            [fs[path]["events"] EXCEPT ![i] = Strip(@, p)]))

StripMesh(path) ==
    /\ "mesh" \in DOMAIN fs[path]
    /\ Pristine(fs[path])
    /\ Edited(path, DictSet(fs[path], "mesh", Strip(fs[path]["mesh"], <<>>)))

RetagVariable(path, k, p, how) ==
    /\ Pristine(fs[path])
    /\ Edited(path, DictSet(fs[path], "variables",
                            DictSet(fs[path]["variables"], k,
                                    Retag(fs[path]["variables"][k], p, how))))

(***************************************************************************)
(* The specification.                                                      *)
(***************************************************************************)
Paths == {OutputPath(w.model, f, now) : w \in Worlds, f \in FilenameArgs, now \in Clock}
TargetClasses == {None, Class(DFNT)}

\* the decoder calls that can be in progress
Procs == {1, 2}

\* nothing has been called yet
NoCalls ==
    /\ fs = <<>>
    /\ call = [op |-> "none", mesh |-> None, variables |-> None,
               filename |-> None, battery_model |-> None]
    /\ raised = NoError
    /\ returned = None
    /\ invoked = [encoders |-> 0, deserialise |-> None]
    /\ printed = <<>>

Init ==
    /\ \E w \in Worlds :
          /\ model = w.model
          /\ mesh = w.mesh
          /\ variables = w.variables
          /\ filename = w.filename
    /\ NoCalls
    /\ input = [p \in Procs |-> None]
    /\ nodes = [p \in Procs |-> None]
    /\ stack = [p \in Procs |-> <<>>]
    /\ objs = [p \in Procs |-> None]
    /\ rebuilds = [p \in Procs |-> <<>>]
    /\ assembled = None
    /\ pending = <<>>
    /\ sys_modules = ImportableModules

Save ==
    \E ma \in {None, mesh}, va \in {None, variables}, now \in Clock :
        SaveModel(ma, va, filename, now)
Load == \E path \in Paths, bm \in TargetClasses : LoadModel(path, bm)
EditModelTag == \E path \in DOMAIN fs : DropModelTag(path)
EditField ==
    \E path \in DOMAIN fs :
        \E p \in NodePaths(fs[path]["concatenated_rhs"]), how \in BadTagKinds :
            RetagField(path, "concatenated_rhs", p, how)
EditEvent ==
    \E path \in DOMAIN fs :
        \E i \in 1..Len(fs[path]["events"]) :
            \E p \in NodePaths(fs[path]["events"][i]), how \in BadTagKinds :
                RetagEvent(path, i, p, how)
EditMesh == \E path \in DOMAIN fs, how \in BadTagKinds : RetagMesh(path, how)
EditSubMesh ==
    \E path \in {q \in DOMAIN fs : "mesh" \in DOMAIN fs[q] /\ Pristine(fs[q])} :
        \E n \in DOMAIN fs[path]["mesh"]["sub_meshes"], how \in BadTagKinds :
            RetagSubMesh(path, n, how)
EditVariable ==
    \E path \in {q \in DOMAIN fs : "variables" \in DOMAIN fs[q]} :
        \E k \in DOMAIN fs[path]["variables"] :
            \E p \in NodePaths(fs[path]["variables"][k]), how \in BadTagKinds :
                RetagVariable(path, k, p, how)
EditFieldShape ==
    \E path \in DOMAIN fs :
        \E p \in CompositePaths(fs[path]["concatenated_rhs"]) :
            StripField(path, "concatenated_rhs", p)
EditEventShape ==
    \E path \in DOMAIN fs :
        \E i \in 1..Len(fs[path]["events"]) :
            \E p \in CompositePaths(fs[path]["events"][i]) :
                StripEvent(path, i, p)
EditMeshShape == \E path \in DOMAIN fs : StripMesh(path)

Next ==
    \/ Save
    \/ Load
    \/ EditModelTag
    \/ EditField
    \/ EditEvent
    \/ EditMesh
    \/ EditSubMesh
    \/ EditVariable
    \/ EditFieldShape
    \/ EditEventShape
    \/ EditMeshShape

Spec == Init /\ [][Next]_vars

(***************************************************************************)
(* The calls step by step: two calls of the decoder, each on a record of   *)
(* its own, and a call of save_model, with their steps interleaved.  A     *)
(* step of a decoder call is one call of _reconstruct_epression_tree on a  *)
(* nested record, or one call of _reconstruct_symbol with the assignment   *)
(* of its result; a step of save_model is the encoding of one field.       *)
(***************************************************************************)
ExpressionTree == "_reconstruct_epression_tree"
MeshMethod == "_reconstruct_mesh"
MethodCall(fn, rec) == [fn |-> fn, node |-> rec]

\* the name under which sub-mesh j of the mesh keys is persisted
SubMeshName(j) == MeshKeySeq[j][1]
\* node["sub_meshes"].items(), by the place of the key among the mesh keys
SubMeshOrder(rec) ==
    SelectSeq([j \in 1..Len(MeshKeySeq) |-> j],
              LAMBDA j : /\ Len(MeshKeySeq[j]) = 1
                         /\ SubMeshName(j) \in DOMAIN rec["sub_meshes"])

\* the record at a position of a record: 0 is the expression of an event, i
\* child i, or entry i of the sub-meshes
RECURSIVE At(_, _)
At(rec, path) ==
    IF path = <<>> THEN rec
    ELSE IF Head(path) = 0 THEN At(rec["expression"], Tail(path))
    ELSE IF "sub_meshes" \in DOMAIN rec
    THEN At(rec["sub_meshes"][SubMeshName(Head(path))], Tail(path))
    ELSE At(rec["children"][Head(path)], Tail(path))

\* node["children"][i] = v (node["expression"] = v, node["sub_meshes"][k] = v)
\* at a position of a record
RECURSIVE Put(_, _, _)
Put(rec, path, v) ==
    IF path = <<>> THEN v
    ELSE IF Head(path) = 0
    THEN DictSet(rec, "expression", Put(rec["expression"], Tail(path), v))
    ELSE IF "sub_meshes" \in DOMAIN rec
    THEN DictSet(rec, "sub_meshes",
                 DictSet(rec["sub_meshes"], SubMeshName(Head(path)),
                         Put(rec["sub_meshes"][SubMeshName(Head(path))], Tail(path), v)))
    ELSE DictSet(rec, "children",
                 [rec["children"] EXCEPT ![Head(path)] = Put(@, Tail(path), v)])

\* mutant: the rebuilt object is not stored in the record
StoreChildNowhere(rec, path, child_obj) == rec

\* node["children"][i] = child_obj
StoreChild(rec, path, child_obj) == Put(rec, path, child_obj)

\* the address of the object built for a position by call p
Base(p) == <<20 + p>>
Addr(p, path) ==
    Base(p) \o [j \in 1..Len(path) |-> IF path[j] = 0 THEN 1 ELSE path[j]]

\* mutant: the result is kept in an attribute of the Serialise object the
\* calls share
ObjOfSerialise(p) == 1

\* obj, the local variable of call p
ObjOf(p) == p

Top(p) == stack[p][Len(stack[p])]
Here(p) == At(nodes[p], Top(p).path)

\* the loop of the activation is over: every child (the expression, every
\* sub-mesh) has been rebuilt, or the record has none
LoopOver(fn, here, i) ==
    IF fn = MeshMethod
    THEN "sub_meshes" \notin DOMAIN here \/ i > Len(SubMeshOrder(here))
    ELSE IF "children" \in DOMAIN here THEN i > Len(here["children"])
    ELSE IF "expression" \in DOMAIN here THEN i > 1
    ELSE TRUE

\* self._reconstruct_epression_tree(c): a new activation, with the position
\* of its record in the input and the index of its loop
Descend(p) ==
    /\ stack[p] # <<>>
    /\ input[p].fn = ExpressionTree
    /\ ~LoopOver(input[p].fn, Here(p), Top(p).i)
    /\ stack' = [stack EXCEPT ![p] =
                     Append(@, [path |-> IF "children" \in DOMAIN Here(p)
                                         THEN Append(Top(p).path, Top(p).i)
                                         ELSE Append(Top(p).path, 0),
                                i |-> 1])]
    /\ UNCHANGED <<input, nodes, objs, rebuilds, assembled, pending, sys_modules>>
    /\ UNCHANGED <<model, mesh, variables, filename, fs, call, raised, returned,
                   invoked, printed>>

\* importlib.import_module: a module that exists is loaded, if it was not
ImportModule(loaded, parts) ==
    IF ImportSucceeds(parts) THEN loaded \cup {ModulePath(parts)} ELSE loaded

\* what the import of a module that does not exist prints
Printed(o) ==
    IF IsError(o) /\ o.exc = "UnboundLocalError"
    THEN Append(printed, "ModuleNotFoundError") ELSE printed

\* obj = self._reconstruct_symbol(node) has given o: an exception ends the
\* call, an object is returned to the caller, which stores it and goes on
\* with its loop
Rebuilt(p, path, o) ==
    /\ rebuilds' = [rebuilds EXCEPT ![p] = Append(@, path)]
    /\ printed' = Printed(o)
    /\ IF IsError(o) \/ Len(stack[p]) = 1
       THEN /\ stack' = [stack EXCEPT ![p] = <<>>]
            /\ objs' = [objs EXCEPT ![ObjOf(p)] = o]
            /\ nodes' = nodes
       ELSE /\ stack' = [stack EXCEPT ![p] =
                            [SubSeq(@, 1, Len(@) - 1) EXCEPT ![Len(@) - 1].i = @ + 1]]
            /\ nodes' = [nodes EXCEPT ![p] = StoreChild(@, path, o)]
            /\ objs' = objs
    /\ sys_modules' = ImportModule(sys_modules, At(nodes[p], path)["py/object"])
    /\ UNCHANGED <<input, assembled, pending>>
    /\ UNCHANGED <<model, mesh, variables, filename, fs, call, raised, returned, invoked>>

Rebuild(p) ==
    /\ stack[p] # <<>>
    /\ LoopOver(input[p].fn, Here(p), Top(p).i)
    /\ Rebuilt(p, Top(p).path, ReconstructSymbol(Here(p), Addr(p, Top(p).path)))

\* sub_mesh = self._reconstruct_symbol(v) has given o
SubMeshRebuilt(p, j, o) ==
    /\ rebuilds' = [rebuilds EXCEPT ![p] = Append(@, <<j>>)]
    /\ printed' = Printed(o)
    /\ IF IsError(o)
       THEN /\ stack' = [stack EXCEPT ![p] = <<>>]
            /\ objs' = [objs EXCEPT ![ObjOf(p)] = o]
            /\ nodes' = nodes
       ELSE /\ stack' = [stack EXCEPT ![p] = <<[path |-> <<>>, i |-> Top(p).i + 1]>>]
            /\ nodes' = [nodes EXCEPT ![p] = StoreChild(@, <<j>>, o)]
            /\ objs' = objs
    /\ sys_modules' = ImportModule(sys_modules, At(nodes[p], <<j>>)["py/object"])
    /\ UNCHANGED <<input, assembled, pending>>
    /\ UNCHANGED <<model, mesh, variables, filename, fs, call, raised, returned, invoked>>

RebuildSubMesh(p) ==
    /\ stack[p] # <<>>
    /\ input[p].fn = MeshMethod
    /\ ~LoopOver(input[p].fn, nodes[p], Top(p).i)
    /\ LET j == SubMeshOrder(nodes[p])[Top(p).i]
       IN  SubMeshRebuilt(p, j,
                          ReconstructSymbol(nodes[p]["sub_meshes"][SubMeshName(j)],
                                            Append(Base(p), j)))

\* the steps of save_model on a discretised model: the encoder calls of
\* lines 116-141 in the order they are made, then the file
EncodeOrder(meshArg, varArg) ==
    <<"concatenated_rhs", "concatenated_algebraic", "concatenated_initial_conditions",
      "events", "mass_matrix", "mass_matrix_inv">>
    \o (IF Truthy(meshArg) THEN <<"mesh">> ELSE <<>>)
    \o (IF Truthy(varArg) THEN <<"variables">> ELSE <<>>)
    \o <<"write">>

\* the entries of model_json that need no encoder
Header(m) ==
    ("py/object" :> TypeTag(m))
    @@ ("py/id" :> m.id)
    @@ ("name" :> m.name)
    @@ ("options" :> m.options)
    @@ ("bounds" :> [i \in 1..Len(m.bounds) |-> ToList(m.bounds[i])])

\* what the encoder gives for a field
FieldRecord(f) ==
    IF f = "events" THEN EncodeEvents(model.events)
    ELSE IF f = "mesh" THEN MeshEncoderDefault(mesh)
    ELSE IF f = "variables"
    THEN [k \in DOMAIN variables.items |-> SymbolEncoderDefault(variables.items[k])]
    ELSE SymbolEncoderDefault(model[f])

\* the exception raised by the encoding of a field, or NoError
FieldError(f, value) ==
    IF f = "events"
    THEN (IF AnyError(value) THEN FirstError(value) ELSE NoError)
    ELSE IF f = "variables"
    THEN (IF \E k \in DOMAIN value : IsError(value[k])
          THEN value[CHOOSE k \in DOMAIN value : IsError(value[k])] ELSE NoError)
    ELSE IF IsError(value) THEN value ELSE NoError

Encoded(f, value, error) ==
    /\ IF error # NoError
       THEN /\ raised' = error
            /\ pending' = <<>>
            /\ assembled' = assembled
       ELSE /\ raised' = raised
            /\ pending' = Tail(pending)
            /\ assembled' =
                   IF f = "variables"
                   THEN DictSet(DictSet(assembled, "geometry", model.geometry),
                                f, value)
                   ELSE DictSet(assembled, f, value)
    /\ UNCHANGED <<input, nodes, stack, objs, rebuilds, sys_modules>>
    /\ UNCHANGED <<model, mesh, variables, filename, fs, call, returned, invoked, printed>>

EncodeField ==
    /\ pending # <<>>
    /\ Head(pending) # "write"
    /\ Encoded(Head(pending), FieldRecord(Head(pending)),
               FieldError(Head(pending), FieldRecord(Head(pending))))

\* with open(filename + ".json", "w") as f: json.dump(model_json, f)
WriteFile ==
    /\ pending = <<"write">>
    /\ \E now \in Clock :
          fs' = DictSet(fs, OutputPath(model, filename, now), assembled)
    /\ pending' = <<>>
    /\ UNCHANGED <<input, nodes, stack, objs, rebuilds, assembled, sys_modules>>
    /\ UNCHANGED <<model, mesh, variables, filename, call, raised, returned, invoked,
                   printed>>

\* the records the decoder calls are given: the records the encoders write,
\* and records that cannot be rebuilt
EventRecord1 == SymbolEncoderDefault(Place(Event1, <<6, 1>>))
MethodCalls ==
    LET subtraction ==
            SymbolEncoderDefault(Place(Subtraction(StateVector(0), Scalar(1)), <<1>>))
        whole == MeshEncoderDefault(Mesh(MeshKeys))
    IN  {MethodCall(ExpressionTree, SymbolEncoderDefault(Place(t, <<1>>))) : t \in Trees}
        \cup {MethodCall(ExpressionTree, r) :
                  r \in {EventRecord1,
                         Retag(subtraction, <<1>>, "module"),
                         Retag(subtraction, <<2>>, "class"),
                         Strip(subtraction, <<>>)}}
        \cup {MethodCall(MeshMethod, r) :
                  r \in {whole,
                         MeshEncoderDefault(Mesh({<<NegativeGhost>>})),
                         Put(whole, <<1>>,
                             Retag(MeshEncoderDefault(SubMesh(<<Negative>>)),
                                   <<>>, "class"))}}

StepWorlds ==
    {World(Model(SPMT, TRUE, StateVector(0), <<Event1>>),
           Mesh({<<Negative>>, <<NegativeGhost>>}), vs, Str("out")) :
        vs \in {OneVariable, FloatVariables}}

InitSteps ==
    /\ \E w \in StepWorlds :
          /\ model = w.model
          /\ mesh = w.mesh
          /\ variables = w.variables
          /\ filename = w.filename
    /\ NoCalls
    /\ \E c \in MethodCalls :
          input = (1 :> c) @@ (2 :> MethodCall(ExpressionTree, EventRecord1))
    /\ nodes = [p \in Procs |-> input[p].node]
    /\ stack = [p \in Procs |-> <<[path |-> <<>>, i |-> 1]>>]
    /\ objs = [p \in Procs |-> None]
    /\ rebuilds = [p \in Procs |-> <<>>]
    /\ assembled = Header(model)
    /\ pending = EncodeOrder(mesh, variables)
    \* import pybamm (line 3) has loaded the modules of the package
    /\ sys_modules = ImportableModules

NextSteps ==
    \/ \E p \in Procs : Descend(p)
    \/ \E p \in Procs : Rebuild(p)
    \/ \E p \in Procs : RebuildSubMesh(p)
    \/ EncodeField
    \/ WriteFile

SpecSteps == InitSteps /\ [][NextSteps]_vars

(***************************************************************************)
(* Properties.                                                             *)
(***************************************************************************)
\* the last call was load_model on a file that exists; the document it read
LoadedFile == call.op = "load_model" /\ call.filename.str \in DOMAIN fs
LoadedDoc == fs[call.filename.str]
\* the last call was save_model and it wrote the file; the document written
SavedFile == call.op = "save_model" /\ raised = NoError
SavedDoc == fs[OutputPath(model, call.filename, CHOOSE now \in Clock : TRUE)]

\* the document is one save_model writes for the caller's model
SavedByModel(doc) ==
    \E ma \in {None, mesh}, va \in {None, variables} : doc = SnapshotOf(model, ma, va)

\* two live trees agree node for node: the same class, the same own
\* attributes, the same number of children and equivalent children at every
\* position
RECURSIVE Equivalent(_, _)
Equivalent(x, y) ==
    /\ x.kind = y.kind
    /\ x.type = y.type
    /\ x.attrs = y.attrs
    /\ IF x.kind = "Event" THEN Equivalent(x.expression, y.expression)
       ELSE /\ Len(x.children) = Len(y.children)
            /\ \A i \in 1..Len(x.children) : Equivalent(x.children[i], y.children[i])

\* a live tree is the record rebuilt position by position
RECURSIVE Mirrors(_, _)
Mirrors(rec, obj) ==
    /\ obj.type = rec["py/object"]
    /\ obj.attrs = OwnAttrs(rec)
    /\ "children" \in DOMAIN rec =>
          /\ Len(obj.children) = Len(rec["children"])
          /\ \A i \in 1..Len(rec["children"]) : Mirrors(rec["children"][i], obj.children[i])
    /\ "expression" \in DOMAIN rec => Mirrors(rec["expression"], obj.expression)

TreeFields ==
    {"concatenated_rhs", "concatenated_algebraic", "concatenated_initial_conditions",
     "mass_matrix", "mass_matrix_inv"}

\* C1: save_model on a model that is not discretised raises
\* NotImplementedError before any encoder is called, and the call creates or
\* writes no file.
C1_UndiscretisedRejected ==
    [][(call'.op = "save_model" /\ model.is_discretised = FALSE)
          => /\ raised'.exc = "NotImplementedError"
             /\ invoked'.encoders = 0
             /\ fs' = fs]_vars
C1_Witness ==
    /\ call.op = "save_model"
    /\ model.is_discretised = FALSE
    /\ raised.exc = "NotImplementedError"
    /\ fs = <<>>

C3_OrderPreserved ==
    (LoadedFile /\ raised = NoError)
    => /\ \A f \in TreeFields : Mirrors(LoadedDoc[f], returned[f])
       /\ Len(returned.events) = Len(LoadedDoc["events"])
       /\ \A i \in 1..Len(LoadedDoc["events"]) :
             Mirrors(LoadedDoc["events"][i], returned.events[i])
       /\ "variables" \in DOMAIN LoadedDoc =>
             \A k \in DOMAIN LoadedDoc["variables"] :
                 Mirrors(LoadedDoc["variables"][k], returned.variables.items[k])
C3_Witness ==
    /\ LoadedFile
    /\ raised = NoError
    /\ LoadedDoc["concatenated_rhs"]["py/object"] = SubtractionT
    /\ returned.concatenated_rhs.children[1].type = StateVectorT
    /\ returned.concatenated_rhs.children[2].type = ScalarT
    /\ LoadedDoc["concatenated_rhs"]["children"][1]["py/object"] = StateVectorT

\* C4: after save_model and load_model the model has as many events as the
\* original, in the original order, each with its name and event type and
\* an expression equivalent to the original one.
C4_EventsRoundTrip ==
    (LoadedFile /\ SavedByModel(LoadedDoc) /\ raised = NoError)
    => /\ Len(returned.events) = Len(model.events)
       /\ \A i \in 1..Len(model.events) :
             /\ returned.events[i].attrs.name = model.events[i].attrs.name
             /\ returned.events[i].attrs.event_type = model.events[i].attrs.event_type
             /\ Equivalent(model.events[i], returned.events[i])
C4_Witness ==
    /\ LoadedFile
    /\ SavedByModel(LoadedDoc)
    /\ raised = NoError
    /\ Len(model.events) >= 2
    /\ model.events[1].attrs.name # model.events[2].attrs.name
    /\ Len(returned.events) = Len(model.events)

\* the type tags of a record and of the records nested in it
RECURSIVE TagsOf(_)
TagsOf(rec) ==
    {rec["py/object"]}
    \cup (IF "children" \in DOMAIN rec
          THEN UNION {TagsOf(rec["children"][i]) : i \in 1..Len(rec["children"])}
          ELSE {})
    \cup (IF "expression" \in DOMAIN rec THEN TagsOf(rec["expression"]) ELSE {})
    \cup (IF "sub_meshes" \in DOMAIN rec
          THEN UNION {TagsOf(rec["sub_meshes"][n]) : n \in DOMAIN rec["sub_meshes"]}
          ELSE {})

\* the type tags load_model resolves that name no module or no class
UnknownTags(doc, battery_model) ==
    {t \in UNION {TagsOf(rec) : rec \in DecodedRecords(doc)} : t \notin ImportableClasses}
    \cup (IF battery_model = None /\ "py/object" \in DOMAIN doc
             /\ doc["py/object"] \notin ImportableClasses
          THEN {doc["py/object"]} ELSE {})

\* C5: load_model of a file in which a record that is decoded carries a type
\* tag naming a module or a class that does not exist raises an exception
\* and returns nothing; no model class is deserialised.
C5_UnknownTagRejected ==
    (LoadedFile /\ UnknownTags(LoadedDoc, call.battery_model) # {})
    => /\ raised.exc \in (IF Malformed(LoadedDoc) = {}
                           THEN {"UnboundLocalError", "AttributeError"}
                           ELSE {"UnboundLocalError", "AttributeError", "KeyError"})
       /\ returned = None
       /\ invoked.deserialise = None
C5_Witness ==
    /\ LoadedFile
    /\ \E t \in UnknownTags(LoadedDoc, call.battery_model) :
          ModulePath(t) \in ImportableModules
    /\ raised.exc = "AttributeError"
    /\ returned = None

\* C6: when a type tag cannot be resolved, the exception load_model raises
\* names the tag that could not be resolved.
C6_ErrorNamesTag ==
    (LoadedFile /\ UnknownTags(LoadedDoc, call.battery_model) # {})
    => raised.mentions \in UnknownTags(LoadedDoc, call.battery_model)

\* a ghost-cell entry of a mesh: the name of its domain ends in "ghost cell"
IsGhostKey(k) == k[1][Len(k[1])] = GhostCell

\* C7: the sub_meshes mapping save_model writes has an entry for exactly
\* the entries of the mesh whose key has length 1 and is no ghost-cell entry,
\* and each is the record of that sub-mesh.
C7_MeshFiltering ==
    (SavedFile /\ Truthy(call.mesh))
    => /\ "mesh" \in DOMAIN SavedDoc
       /\ DOMAIN SavedDoc["mesh"]["sub_meshes"]
             = {k[1] : k \in {q \in DOMAIN call.mesh.items :
                                 Len(q) = 1 /\ ~IsGhostKey(q)}}
       /\ \A n \in DOMAIN SavedDoc["mesh"]["sub_meshes"] :
             SavedDoc["mesh"]["sub_meshes"][n]["py/id"] = call.mesh.items[<<n>>].id
C7_Witness ==
    /\ SavedFile
    /\ call.mesh # None
    /\ "mesh" \in DOMAIN SavedDoc
    /\ DOMAIN call.mesh.items = MeshKeys
    /\ DOMAIN SavedDoc["mesh"]["sub_meshes"] = {Negative, Separator}

\* C8: a target class given to load_model is the class deserialised, whatever
\* type tag the file carries, resolvable or not; without a target the class
\* named by the type tag of the file is the class deserialised.
C8_TargetPrecedence ==
    LoadedFile
    => /\ (call.battery_model # None /\ Pristine(LoadedDoc))
          => /\ raised = NoError
             /\ invoked.deserialise = call.battery_model
             /\ returned.type = call.battery_model.class
       /\ (call.battery_model = None /\ invoked.deserialise # None)
          => /\ "py/object" \in DOMAIN LoadedDoc
             /\ invoked.deserialise = Class(LoadedDoc["py/object"])
             /\ returned.type = LoadedDoc["py/object"]
       /\ (/\ call.battery_model = None
           /\ Pristine(LoadedDoc)
           /\ "py/object" \in DOMAIN LoadedDoc
           /\ LoadedDoc["py/object"] \in ImportableClasses)
          => /\ raised = NoError
             /\ invoked.deserialise = Class(LoadedDoc["py/object"])
C8_Witness ==
    /\ LoadedFile
    /\ call.battery_model = Class(DFNT)
    /\ "py/object" \in DOMAIN LoadedDoc
    /\ LoadedDoc["py/object"] = UserModelT
    /\ raised = NoError
    /\ returned.type = DFNT

\* C9 as stated: load_model without a target class on a file without a type
\* tag raises TypeError, returns no model and deserialises nothing.
C9_AsStated ==
    (LoadedFile /\ call.battery_model = None /\ "py/object" \notin DOMAIN LoadedDoc)
    => /\ raised.exc = "TypeError"
       /\ returned = None
       /\ invoked.deserialise = None

\* C9: load_model without a target class on a file without a type tag
\* returns no model and deserialises nothing; it raises TypeError when every
\* record of the file has been reconstructed, and the exception of the
\* reconstruction when a record could not be.
C9_MissingTarget ==
    (LoadedFile /\ call.battery_model = None /\ "py/object" \notin DOMAIN LoadedDoc)
    => /\ returned = None
       /\ invoked.deserialise = None
       /\ IF Pristine(LoadedDoc) THEN raised.exc = "TypeError"
          ELSE raised.exc \in {"UnboundLocalError", "AttributeError", "KeyError"}
C9_Witness ==
    /\ LoadedFile
    /\ call.battery_model = None
    /\ "py/object" \notin DOMAIN LoadedDoc
    /\ Pristine(LoadedDoc)
    /\ raised.exc = "TypeError"
    /\ returned = None

RequiredKeys ==
    {"name", "options", "bounds", "events"} \cup TreeFields

\* C10: the document save_model writes always has name, options, bounds, the
\* three trees, every event and both mass matrices; it has the mesh if and
\* only if a mesh was given to save_model, and the variables if and only if
\* variables were given.
C10_SnapshotContents ==
    SavedFile
    => /\ RequiredKeys \subseteq DOMAIN SavedDoc
       /\ Len(SavedDoc["events"]) = Len(model.events)
       /\ "mesh" \in DOMAIN SavedDoc <=> call.mesh # None
       /\ "variables" \in DOMAIN SavedDoc <=> call.variables # None

\* the model class load_model deserialises is known: given, or named by the
\* type tag of the file and importable
TargetKnown(doc, battery_model) ==
    \/ battery_model # None
    \/ /\ "py/object" \in DOMAIN doc
       /\ doc["py/object"] \in ImportableClasses

\* C11: load_model of a file without mesh or without variables succeeds, with
\* None for the missing field in what deserialise is given; the trees, events
\* and mass matrices are rebuilt as they are from the file of the same model
\* saved without mesh and variables.
C11_AbsentMeshVariables ==
    (LoadedFile /\ Pristine(LoadedDoc) /\ TargetKnown(LoadedDoc, call.battery_model))
    => /\ raised = NoError
       /\ "mesh" \notin DOMAIN LoadedDoc => returned.mesh = None
       /\ "variables" \notin DOMAIN LoadedDoc => returned.variables = None
       /\ "geometry" \notin DOMAIN LoadedDoc => returned.geometry = None
       /\ SavedByModel(LoadedDoc) =>
             /\ \A f \in TreeFields :
                   returned[f] = ReconModelDict(SnapshotOf(model, None, None))[f]
             /\ returned.events = ReconEvents(SnapshotOf(model, None, None))
C11_Witness ==
    /\ LoadedFile
    /\ "mesh" \notin DOMAIN LoadedDoc
    /\ "variables" \notin DOMAIN LoadedDoc
    /\ raised = NoError
    /\ returned.mesh = None
    /\ returned.variables = None
    /\ returned.concatenated_rhs.type = SubtractionT

\* a field of the model load_model returns is a live object
LiveFields(m) ==
    /\ \A f \in TreeFields : ~IsError(m[f])
    /\ \A i \in 1..Len(m.events) : ~IsError(m.events[i])
    /\ ~IsError(m.mesh)
    /\ m.variables # None =>
          \A k \in DOMAIN m.variables.items : ~IsError(m.variables.items[k])

\* C12: load_model calls deserialise only when every record of the file has
\* been rebuilt, and then gives it live objects only; when a record cannot be
\* rebuilt the call raises, returns no model and calls no deserialise.
C12_NoPartialSuccess ==
    LoadedFile
    => /\ invoked.deserialise # None
          => /\ Pristine(LoadedDoc)
             /\ raised = NoError
             /\ LiveFields(returned)
       /\ ~Pristine(LoadedDoc)
          => /\ raised # NoError
             /\ returned = None
             /\ invoked.deserialise = None
C12_Witness ==
    /\ LoadedFile
    /\ call.battery_model # None
    /\ KnownTags(LoadedDoc["concatenated_rhs"])
    /\ ~Pristine(LoadedDoc)
    /\ raised # NoError
    /\ returned = None
    /\ invoked.deserialise = None

IsLive(x) == "kind" \in DOMAIN x /\ "py/object" \notin DOMAIN x

\* every initial_condition of a rebuilt tree is a live node
RECURSIVE InitialConditionsLive(_)
InitialConditionsLive(obj) ==
    /\ HasInitialCondition(obj) => IsLive(obj.initial_condition)
    /\ \A i \in 1..Len(obj.children) : InitialConditionsLive(obj.children[i])

\* C14: in the model load_model returns, the initial_condition of a node
\* rebuilt from a record with an initial_condition field is a rebuilt live
\* node, not the raw record, and the children of the node are the rebuilt
\* children of the record, position by position.
C14_InitialConditionRebuilt ==
    (LoadedFile /\ raised = NoError)
    => \A f \in TreeFields :
          /\ InitialConditionsLive(returned[f])
          /\ Mirrors(LoadedDoc[f], returned[f])

\* a record is the complete nested record of a live node: its tag, marker and
\* own attributes, and a complete nested record for every child
RECURSIVE Unfolds(_, _)
Unfolds(rec, node) ==
    /\ {"py/object", "py/id", "children"} \subseteq DOMAIN rec
    /\ rec["py/object"] = node.type
    /\ rec["py/id"] = node.id
    /\ OwnAttrs(rec) = node.attrs
    /\ Len(rec["children"]) = Len(node.children)
    /\ \A i \in 1..Len(node.children) : Unfolds(rec["children"][i], node.children[i])

\* the positions of a live tree and the object at a position
RECURSIVE LivePaths(_)
LivePaths(obj) ==
    {<<>>} \cup UNION {{<<i>> \o p : p \in LivePaths(obj.children[i])} :
                          i \in 1..Len(obj.children)}
RECURSIVE ObjAt(_, _)
ObjAt(obj, p) == IF p = <<>> THEN obj ELSE ObjAt(obj.children[Head(p)], Tail(p))

\* the objects at two positions of a tree are never one object
Independent(obj) ==
    \A p, q \in LivePaths(obj) : p # q => ObjAt(obj, p).id # ObjAt(obj, q).id

\* C16: the record save_model writes for a tree is its full unfolding: at
\* every position the complete nested record of the node there, also when the
\* node instance is at several positions; load_model builds one object per
\* position, so instances are no longer shared.
C16_FullUnfolding ==
    /\ SavedFile => \A f \in TreeFields : Unfolds(SavedDoc[f], model[f])
    /\ (LoadedFile /\ raised = NoError)
          => \A f \in TreeFields : Independent(returned[f])
C16_Witness ==
    /\ LoadedFile
    /\ raised = NoError
    /\ Len(model.concatenated_rhs.children) = 2
    /\ model.concatenated_rhs.children[1].id = model.concatenated_rhs.children[2].id
    /\ LoadedDoc["concatenated_rhs"]["children"][1]
          = LoadedDoc["concatenated_rhs"]["children"][2]
    /\ Len(LoadedDoc["concatenated_rhs"]["children"][2]["children"]) = 2
    /\ returned.concatenated_rhs.children[1].id # returned.concatenated_rhs.children[2].id

\* the records emitted for a node and the nodes below it, each with the node
\* instance it was produced from
RECURSIVE Emitted(_, _)
Emitted(rec, node) ==
    {[record |-> rec, instance |-> node.id]}
    \cup (IF node.kind = "Symbol"
          THEN UNION {Emitted(rec["children"][i], node.children[i]) :
                         i \in 1..Len(node.children)}
          ELSE {})
    \cup (IF node.kind = "Symbol" /\ HasInitialCondition(node)
          THEN Emitted(rec["initial_condition"], node.initial_condition)
          ELSE {})
    \cup (IF node.kind = "Event" THEN Emitted(rec["expression"], node.expression)
          ELSE {})
    \cup (IF node.kind = "Mesh"
          THEN UNION {Emitted(rec["sub_meshes"][n], node.items[<<n>>]) :
                         n \in DOMAIN rec["sub_meshes"]}
          ELSE {})

\* the records of one save_model call
EmittedBy(doc) ==
    UNION {Emitted(doc[f], model[f]) : f \in TreeFields}
    \cup UNION {Emitted(doc["events"][i], model.events[i]) : i \in 1..Len(model.events)}
    \cup (IF "mesh" \in DOMAIN doc THEN Emitted(doc["mesh"], call.mesh) ELSE {})
    \cup (IF "variables" \in DOMAIN doc
          THEN UNION {Emitted(doc["variables"][k], call.variables.items[k]) :
                         k \in DOMAIN doc["variables"]}
          ELSE {})

\* C18: every record of the document save_model writes has a type tag and an
\* identity marker, and two of its records have the same marker exactly when
\* they were produced from the same node instance.
C18_IdentityMarkers ==
    SavedFile
    => /\ \A e \in EmittedBy(SavedDoc) : {"py/object", "py/id"} \subseteq DOMAIN e.record
       /\ \A d, e \in EmittedBy(SavedDoc) :
             d.record["py/id"] = e.record["py/id"] <=> d.instance = e.instance
C18_Witness ==
    /\ SavedFile
    /\ Len(model.concatenated_rhs.children) = 2
    /\ SavedDoc["concatenated_rhs"]["children"][1]["py/id"]
          = SavedDoc["concatenated_rhs"]["children"][2]["py/id"]
    /\ model.concatenated_rhs.children[1].id = model.concatenated_rhs.children[2].id
    /\ SavedDoc["concatenated_algebraic"]["children"][1]["py/id"]
          # SavedDoc["concatenated_algebraic"]["children"][2]["py/id"]
    /\ SavedDoc["concatenated_algebraic"]["children"][1]["py/object"]
          = SavedDoc["concatenated_algebraic"]["children"][2]["py/object"]

\* C20: save_model writes its file only when the whole document has been
\* built: a call in which the encoding of a node fails raises and leaves the
\* files as they were, and a file that is written holds every field, each a
\* finished record.
C20_FileAfterAssembly ==
    [][call'.op = "save_model"
          => /\ raised' # NoError => fs' = fs
             /\ raised' = NoError
                   => LET doc == fs'[OutputPath(model, call'.filename,
                                               CHOOSE now \in Clock : TRUE)]
                      IN  /\ RequiredKeys \subseteq DOMAIN doc
                          /\ ~AnyError(EncodedParts(doc))
                          /\ Truthy(call'.mesh) => "mesh" \in DOMAIN doc
                          /\ Truthy(call'.variables) => "variables" \in DOMAIN doc]_vars
C20_Witness ==
    /\ call.op = "save_model"
    /\ model.is_discretised
    /\ call.variables = FloatVariables
    /\ raised.exc = "TypeError"
    /\ fs = <<>>

(***************************************************************************)
(* Concurrent calls.                                                       *)
(***************************************************************************)
Done(p) == stack[p] = <<>>

\* what call p returns or raises when it runs alone
Alone(p) ==
    IF input[p].fn = MeshMethod THEN ReconstructMesh(input[p].node, Base(p))
    ELSE ReconstructExpressionTree(input[p].node, Base(p))

\* what save_model writes or raises when it runs alone
SavedAlone ==
    LET model_json == SnapshotOf(model, mesh, variables)
    IN  IF AnyError(EncodedParts(model_json))
        THEN /\ raised = FirstError(EncodedParts(model_json))
             /\ fs = <<>>
        ELSE /\ raised = NoError
             /\ \E now \in Clock :
                   fs = (OutputPath(model, filename, now) :> model_json)

ResultAsAlone ==
    /\ \A p \in Procs : Done(p) => objs[p] = Alone(p)
    /\ pending = <<>> => SavedAlone

\* a step that is not a step of call p leaves what call p works on as it is,
\* no step changes the live model, mesh or variables, and no step changes
\* the modules loaded
NothingShared ==
    /\ \A p \in Procs :
          stack'[p] = stack[p] =>
              /\ nodes'[p] = nodes[p]
              /\ objs'[p] = objs[p]
              /\ rebuilds'[p] = rebuilds[p]
    /\ (pending' = pending) => (assembled' = assembled /\ fs' = fs /\ raised' = raised)
    /\ UNCHANGED <<model, mesh, variables, input, sys_modules>>

\* C15: calls of the encoder and of the decoder on distinct records and a
\* distinct model share no mutable state: under every interleaving of their
\* steps each call returns, writes or raises what it does when it runs
\* alone, a step of one call changes nothing another call works on, and the
\* resolution of a type changes neither the modules loaded nor their classes
C15_Concurrency == []ResultAsAlone /\ [][NothingShared]_vars

\* one decoder call has returned while the other is half-way through its
\* record and save_model is half-way through its fields
C15_Witness ==
    /\ Done(2) /\ ~IsError(objs[2]) /\ objs[2] # None
    /\ ~Done(1) /\ rebuilds[1] # <<>>
    /\ pending # <<>> /\ "events" \in DOMAIN assembled

(***************************************************************************)
(* The order of the rebuilds.                                              *)
(***************************************************************************)
\* the positions of the records nested in a record through its children, its
\* expression or its sub-meshes
RECURSIVE RecordPaths(_)
RecordPaths(rec) ==
    {<<>>} \cup
    (IF "sub_meshes" \in DOMAIN rec
     THEN {<<SubMeshOrder(rec)[i]>> : i \in 1..Len(SubMeshOrder(rec))}
     ELSE IF "children" \in DOMAIN rec
     THEN UNION {{<<i>> \o q : q \in RecordPaths(rec["children"][i])} :
                    i \in 1..Len(rec["children"])}
     ELSE IF "expression" \in DOMAIN rec
     THEN {<<0>> \o q : q \in RecordPaths(rec["expression"])}
     ELSE {})

\* the number of records of a record: itself, and those of its children, its
\* expression, its sub-meshes and its initial condition
RECURSIVE CountRecords(_)
RECURSIVE CountAll(_)
CountAll(recs) ==
    IF recs = <<>> THEN 0 ELSE CountRecords(Head(recs)) + CountAll(Tail(recs))
CountRecords(rec) ==
    1 + (IF "sub_meshes" \in DOMAIN rec THEN Cardinality(DOMAIN rec["sub_meshes"])
         ELSE IF "children" \in DOMAIN rec THEN CountAll(rec["children"])
         ELSE IF "expression" \in DOMAIN rec THEN CountRecords(rec["expression"])
         ELSE 0)
      + (IF "initial_condition" \in DOMAIN rec
         THEN CountRecords(rec["initial_condition"]) ELSE 0)

StrictlyBelow(q, path) ==
    Len(q) > Len(path) /\ SubSeq(q, 1, Len(path)) = path

\* every record below the one rebuilt at step j was rebuilt before it
DescendantsFirst(log, rec) ==
    \A j \in 1..Len(log) :
        \A q \in RecordPaths(rec) :
            StrictlyBelow(q, log[j]) => \E k \in 1..(j - 1) : log[k] = q

AtMostOnce(log) ==
    \A j, k \in 1..Len(log) : log[j] = log[k] => j = k

\* C17: in every run of the decoder a record is rebuilt only after every
\* record below it (its children, its expression, its sub-meshes), and when
\* the run has returned every record of the input has been rebuilt exactly
\* once
C17_PostOrder ==
    \A p \in Procs :
        /\ DescendantsFirst(rebuilds[p], input[p].node)
        /\ AtMostOnce(rebuilds[p])
        /\ (Done(p) /\ ~IsError(objs[p])) =>
               Len(rebuilds[p]) = CountRecords(input[p].node)

(***************************************************************************)
(* The record after the decoder has returned.                              *)
(***************************************************************************)
\* a record as the encoder writes it, against a live object
IsRecord(x) == "py/object" \in DOMAIN x

\* every entry of the record is a record: none is a live object
Pure(rec) ==
    IF "sub_meshes" \in DOMAIN rec
    THEN \A k \in DOMAIN rec["sub_meshes"] : IsRecord(rec["sub_meshes"][k])
    ELSE IF "children" \in DOMAIN rec
    THEN \A i \in 1..Len(rec["children"]) : IsRecord(rec["children"][i])
    ELSE IF "expression" \in DOMAIN rec THEN IsRecord(rec["expression"])
    ELSE TRUE

\* the record has a child, an expression or a sub-mesh
HasNested(rec) == RecordPaths(rec) # {<<>>}

\* every child (the expression, every sub-mesh) of the record of call p is
\* the live object rebuilt from the entry of the input
EntriesReplaced(p) ==
    LET given == input[p].node
        now == nodes[p]
    IN  IF input[p].fn = MeshMethod
        THEN "sub_meshes" \in DOMAIN given =>
                 /\ DOMAIN now["sub_meshes"] = DOMAIN given["sub_meshes"]
                 /\ \A j \in 1..Len(MeshKeySeq) :
                       (Len(MeshKeySeq[j]) = 1
                            /\ SubMeshName(j) \in DOMAIN given["sub_meshes"]) =>
                           now["sub_meshes"][SubMeshName(j)] =
                               ReconstructSymbol(given["sub_meshes"][SubMeshName(j)],
                                                 Append(Base(p), j))
        ELSE IF "children" \in DOMAIN given
        THEN /\ Len(now["children"]) = Len(given["children"])
             /\ \A i \in 1..Len(given["children"]) :
                   now["children"][i] =
                       ReconstructExpressionTree(given["children"][i], Addr(p, <<i>>))
        ELSE IF "expression" \in DOMAIN given
        THEN now["expression"] =
                 ReconstructExpressionTree(given["expression"], Addr(p, <<0>>))
        ELSE TRUE

Returned(p) == Done(p) /\ ~IsError(objs[p])

C21_GeometryWithVariables ==
    /\ \A path \in DOMAIN fs :
          "geometry" \in DOMAIN fs[path] <=> "variables" \in DOMAIN fs[path]
    /\ SavedFile =>
          /\ "geometry" \in DOMAIN SavedDoc => call.variables # None
          /\ "geometry" \in DOMAIN SavedDoc => SavedDoc["geometry"] = model.geometry
    /\ (LoadedFile /\ raised = NoError /\ "geometry" \notin DOMAIN LoadedDoc)
          => returned.geometry = None

\* a file saved with a mesh and without variables has no geometry, and the
\* model loaded from it has the mesh and no geometry
C21_Witness ==
    /\ LoadedFile
    /\ raised = NoError
    /\ "mesh" \in DOMAIN LoadedDoc
    /\ "variables" \notin DOMAIN LoadedDoc
    /\ "geometry" \notin DOMAIN LoadedDoc
    /\ returned.mesh # None
    /\ returned.geometry = None

====
